---- MODULE Spec2Model ----
(***************************************************************************)
(* Model of the repository audit pipeline of UKB-Git-Audit-Tool            *)
(* (src/src/git_audit.py, src/src/utilities.py).                           *)
(*                                                                         *)
(* One run of audit_repository is a state machine whose program counter pc *)
(* walks the steps of the function; every external command (git, the       *)
(* GitHub API, a file write) is a step whose outcome is drawn with \E.     *)
(*                                                                         *)
(* Encodings.  Text (file content, file names, status codes) is a tuple of *)
(* one-character strings.  A nullable cell of a DataFrame is a tuple of    *)
(* length 0 (NaN / None) or 1 (the value).  A DataFrame is a sequence of   *)
(* records; the field index is the DataFrame's row label.                  *)
(***************************************************************************)
EXTENDS Integers, Sequences, FiniteSets, TLC

(* ------------------------------ bounds -------------------------------- *)
MaxEvents == 3

MaxBlobs == 2

MaxFaults == 1

MaxLogLines == 3

MaxPrefix == 2

MaxManifestLines == 2

(* ----------------------------- fixtures ------------------------------- *)
\* The paths of the audited repository, in git's (sorted) listing order.
FileNames ==
  << <<"3","2","4","0","9","7","1",".","t","s","v">>,
     <<"r","s","1","2","3","4","5","6","7">> >>

\* The commits of the audited repository, oldest first: what %H prints for each.
CommitHashes == <<1, 2>>

Blobs == 1..MaxBlobs

\* The bytes `git show <blob>` prints, when they decode as UTF-8.
BlobText(b) ==
  CASE b = 1 -> <<"1","2","3","4","5","6","7",",","2","0","0","0","0","0","0",
                  ",","1","2","3","4","5","6","7">>
    [] b = 2 -> <<"0",".","1","2","3","4","5","6","7">>
    [] OTHER -> <<"i","d","6","5","0","0","0","0","0">>

BlobSize(b) == b * 786432

(* ------------------------- generic helpers ---------------------------- *)
NaN == <<>>

Some(v) == <<v>>

IsNull(cell) == cell = NaN

Range(s) == {s[i] : i \in 1..Len(s)}

\* pandas Series.unique(): the distinct values in order of first appearance.
RECURSIVE Unique(_)
Unique(s) ==
  IF s = <<>> THEN <<>>
  ELSE LET init == Unique(SubSeq(s, 1, Len(s) - 1))
           last == s[Len(s)]
       IN IF last \in Range(init) THEN init ELSE Append(init, last)

\* pandas Series.dropna() on a column of nullable cells, unwrapping the values.
DropNa(s) ==
  LET keep == SelectSeq(s, LAMBDA cell : ~IsNull(cell))
  IN [i \in 1..Len(keep) |-> keep[i][1]]

Column(df, f) == [i \in 1..Len(df) |-> df[i][f]]

RECURSIVE Concat(_)
Concat(ss) == IF ss = <<>> THEN <<>> ELSE Head(ss) \o Concat(Tail(ss))

Reindex(df) == [i \in 1..Len(df) |-> [df[i] EXCEPT !.index = i - 1]]

(* --------------------------- decimal text ------------------------------ *)
Digits == {"0","1","2","3","4","5","6","7","8","9"}

\* int(digits), pd.to_numeric of a decimal string
RECURSIVE ToInt(_)
ToInt(digits) ==
  IF digits = <<>> THEN 0
  ELSE 10 * ToInt(SubSeq(digits, 1, Len(digits) - 1))
       + (CHOOSE d \in 0..9 : ToString(d) = digits[Len(digits)])

\* The decimal text git prints for a number.
RECURSIVE Decimal(_)
Decimal(n) ==
  IF n < 10 THEN <<ToString(n)>>
  ELSE Decimal(n \div 10) \o <<ToString(n % 10)>>

\* A string pd.to_numeric parses.
IsNumeric(field) == field # <<>> /\ \A k \in 1..Len(field) : field[k] \in Digits

(* ----------------------- the ID pattern (regex) ----------------------- *)

\* (10[0-9]{5}|[1-5][0-9]{6}|6[0-4][0-9]{5}|6500000): the group, at t[i..i+6].
GroupAt(t, i) ==
  /\ i + 6 <= Len(t)
  /\ \A k \in i..(i + 6) : t[k] \in Digits
  /\ \/ t[i] = "1" /\ t[i + 1] = "0"
     \/ t[i] \in {"1","2","3","4","5"}
     \/ t[i] = "6" /\ t[i + 1] \in {"0","1","2","3","4"}
     \/ SubSeq(t, i, i + 6) = <<"6","5","0","0","0","0","0">>

\* Mutant of LookBehindOk: only the lower-case prefix "rs" is excluded.
LookBehindOkLowerCase(t, i) ==
  /\ (i > 1 => t[i - 1] \notin Digits)
  /\ (i > 1 => t[i - 1] # ".")
  /\ (i > 2 => SubSeq(t, i - 2, i - 1) # <<"r","s">>)

\* (?<!\d)(?<!\.)(?<!rs)(?<!RS)(?<!Rs)(?<!rS)
LookBehindOk(t, i) ==
  /\ (i > 1 => t[i - 1] \notin Digits)
  /\ (i > 1 => t[i - 1] # ".")
  /\ (i > 2 => SubSeq(t, i - 2, i - 1) \notin
                 {<<"r","s">>, <<"R","S">>, <<"R","s">>, <<"r","S">>})

\* (?!\d)
LookAheadOk(t, i) == i + 7 <= Len(t) => t[i + 7] \notin Digits

MatchAt(t, i) == LookBehindOk(t, i) /\ GroupAt(t, i) /\ LookAheadOk(t, i)

\* re.findall(pattern, text): leftmost non-overlapping matches, the group's text.
RECURSIVE FindAllFrom(_, _)
FindAllFrom(t, i) ==
  IF i > Len(t) THEN <<>>
  ELSE IF MatchAt(t, i) THEN <<SubSeq(t, i, i + 6)>> \o FindAllFrom(t, i + 7)
  ELSE FindAllFrom(t, i + 1)

FindAll(t) == FindAllFrom(t, 1)

\* bool(re.search(pattern, filename))
Search(t) == \E i \in 1..Len(t) : MatchAt(t, i)

(* ------------------ the audited repository (input) -------------------- *)
\* A history is a sequence of commits, oldest first; a commit is the sequence
\* of its changes [status, filename, blob] in path order.  The file system
\* before a commit maps each path to its blob, or to 0 when the path is absent.
Names == 1..Len(FileNames)

NoFiles == [n \in Names |-> 0]

\* What one commit may do to path n: nothing, add it, modify it or delete it.
PathOptions(fs, n) ==
  {[status |-> <<>>, blob |-> fs[n]]}
  \cup (IF fs[n] = 0
        THEN {[status |-> <<"A">>, blob |-> b] : b \in Blobs}
        ELSE {[status |-> <<"M">>, blob |-> b] : b \in Blobs \ {fs[n]}}
             \cup {[status |-> <<"D">>, blob |-> 0]})

ChoiceSize(ch) == Cardinality({n \in Names : ch[n].status # <<>>})

CommitChoices(fs, budget) ==
  {ch \in [Names -> UNION {PathOptions(fs, n) : n \in Names}] :
     /\ \A n \in Names : ch[n] \in PathOptions(fs, n)
     /\ ChoiceSize(ch) <= budget}

ApplyChoice(ch) == [n \in Names |-> ch[n].blob]

RECURSIVE ChangesOf(_, _)
ChangesOf(ch, n) ==
  IF n > Len(FileNames) THEN <<>>
  ELSE (IF ch[n].status = <<>> THEN <<>>
        ELSE <<[status |-> ch[n].status, filename |-> FileNames[n],
                blob |-> ch[n].blob]>>)
       \o ChangesOf(ch, n + 1)

RECURSIVE HistoriesFrom(_, _, _)
HistoriesFrom(fs, commits, budget) ==
  {<<>>} \cup
  (IF commits = 0 THEN {}
   ELSE UNION {{<<ChangesOf(ch, 1)>> \o rest :
                  rest \in HistoriesFrom(ApplyChoice(ch), commits - 1,
                                         budget - ChoiceSize(ch))} :
               ch \in CommitChoices(fs, budget)})

Histories == HistoriesFrom(NoFiles, Len(CommitHashes), MaxEvents)

\* The tree of commit c: every path present after commits 1..c, with its blob.
RECURSIVE TreeAfter(_, _)
TreeAfter(h, c) ==
  IF c = 0 THEN {}
  ELSE LET before  == TreeAfter(h, c - 1)
           touched == {ch.filename : ch \in Range(h[c])}
       IN {e \in before : e.filename \notin touched}
          \cup {[filename |-> ch.filename, blob |-> ch.blob] :
                  ch \in {x \in Range(h[c]) : x.status # <<"D">>}}

\* stdout of `git ls-tree -r -z <commit>`, split at NUL: one entry per path.
LsTreeOutput(h, c) ==
  LET tree == TreeAfter(h, c)
      present == SelectSeq(FileNames, LAMBDA f : \E e \in tree : e.filename = f)
  IN [i \in 1..Len(present) |->
        LET e == CHOOSE e \in tree : e.filename = present[i]
        IN [header |-> <<"100644", "blob", e.blob>>, filename |-> e.filename]]

\* stdout of `git log --all --name-status --pretty=format:COMMIT_START|%H|%ad|%d`:
\* newest commit first, a header line, the status lines, a blank line.
RECURSIVE RenderLog(_, _)
RenderLog(h, c) ==
  IF c = 0 THEN <<>>
  ELSE <<[kind |-> "COMMIT_START", commit |-> CommitHashes[c], parts |-> <<>>]>>
       \o [i \in 1..Len(h[c]) |->
             [kind |-> "text", commit |-> 0,
              parts |-> <<h[c][i].status, h[c][i].filename>>]]
       \o (IF h[c] = <<>> THEN <<>>
           ELSE <<[kind |-> "text", commit |-> 0, parts |-> <<>>]>>)
       \o RenderLog(h, c - 1)

\* stdout of `git rev-list --objects --all | git cat-file --batch-check=...`:
\* one line per object of the repository, each object once.
ObjectsOf(h) ==
  UNION {{ch.blob : ch \in {x \in Range(h[c]) : x.status # <<"D">>}} :
           c \in 1..Len(h)}

\* The path rev-list prints next to a blob: a path the blob was stored under.
PathOf(h, b) ==
  LET c == CHOOSE c \in 1..Len(h) : \E x \in Range(h[c]) : x.blob = b
  IN (CHOOSE x \in Range(h[c]) : x.blob = b).filename

\* A line is the sequence of its fields, the quotes of the format removed:
\* <<type, object name, size in decimal, path>>; the path is missing when the
\* object has none.
CatFileOutput(h) ==
  [c \in 1..Len(h) |-> <<"commit", 0, Decimal(0)>>]
  \o [c \in 1..Len(h) |-> <<"tree", 0, Decimal(0)>>]
  \o LET objs == SelectSeq([b \in 1..MaxBlobs |-> b], LAMBDA b : b \in ObjectsOf(h))
     IN [i \in 1..Len(objs) |->
           <<"blob", objs[i], Decimal(BlobSize(objs[i])), PathOf(h, objs[i])>>]

(* --------------------- parsing of the git outputs --------------------- *)
\* parse_full_log_to_dataframe: one row per status line.
RECURSIVE ParseLines(_, _)
ParseLines(lines, current_commit) ==
  IF lines = <<>> THEN <<>>
  ELSE LET line == Head(lines) IN
       IF line.kind = "COMMIT_START"
       THEN ParseLines(Tail(lines), line.commit)
       ELSE IF line.parts = <<>> THEN ParseLines(Tail(lines), current_commit)
       ELSE LET status == line.parts[1] IN
            (IF status[1] = "R"
             THEN <<[commit |-> current_commit, status |-> status,
                     filename |-> line.parts[3], old_filename |-> line.parts[2]]>>
             ELSE <<[commit |-> current_commit, status |-> status,
                     filename |-> line.parts[2], old_filename |-> <<>>]>>)
            \o ParseLines(Tail(lines), current_commit)

parse_full_log_to_dataframe(raw_log_output) == ParseLines(raw_log_output, 0)

\* branch_data of git_to_pandas: the split fields of the lines that start
\* with 'blob (at most 4 fields: split(maxsplit=3)).
BranchData(git_stdout) ==
  SelectSeq(git_stdout, LAMBDA line : line # <<>> /\ line[1] = "blob")

\* pd.DataFrame(branch_data, columns=<4 names>) raises ValueError when no row
\* has 4 fields; pd.to_numeric raises ValueError on a size that is not a number.
\* A row shorter than the longest is padded with None.
git_to_pandas_raises(git_stdout) ==
  LET branch_data == BranchData(git_stdout) IN
  /\ branch_data # <<>>
  /\ \/ \A i \in 1..Len(branch_data) : Len(branch_data[i]) < 4
     \/ \E i \in 1..Len(branch_data) :
          Len(branch_data[i]) >= 3 /\ ~IsNumeric(branch_data[i][3])

\* git_to_pandas followed by the rename and column selection of audit_repository.
git_to_pandas(git_stdout) ==
  LET branch_data == BranchData(git_stdout)
  IN [i \in 1..Len(branch_data) |->
        LET row == branch_data[i] IN
        [blob_hash |-> IF Len(row) >= 2 THEN Some(row[2]) ELSE NaN,
         size_bytes |-> IF Len(row) >= 3 THEN Some(ToInt(row[3])) ELSE NaN]]

\* The body of the loop of get_blob_hashes_for_commits for one listing.
TreeEntries(commit, stdout) ==
  LET blobs == SelectSeq(stdout, LAMBDA part :
                 Len(part.header) = 3 /\ part.header[2] = "blob")
  IN [i \in 1..Len(blobs) |->
        [commit |-> commit, blob_hash |-> blobs[i].header[3],
         filename |-> blobs[i].filename]]

(* -------------------------- DataFrame joins --------------------------- *)
\* pd.merge(left, right, how='left'): every left row in order, once per matching
\* right row (in right order), or once with the right columns null.  groups[i]
\* holds the output rows of the i-th left row; the result gets a fresh index.
LeftMerge(groups) == Reindex(Concat(groups))

\* A row of merged_df: a ChangeEvent and the blob_hash cell joined to it.
MergedRow(l, cell) ==
  [index |-> 0, commit |-> l.commit, status |-> l.status, filename |-> l.filename,
   old_filename |-> l.old_filename, blob_hash |-> cell]

\* Mutant of MergeTreeEntries: the join is on 'filename' alone.
MergeTreeEntriesByName(log_df, hashes_df) ==
  LeftMerge([i \in 1..Len(log_df) |->
    LET l == log_df[i]
        hits == SelectSeq(hashes_df, LAMBDA r : l.filename = r.filename)
    IN IF hits = <<>> THEN <<MergedRow(l, NaN)>>
       ELSE [j \in 1..Len(hits) |-> MergedRow(l, Some(hits[j].blob_hash))]])

\* merged_df = pd.merge(full_log_df, blob_hashes_df, on=['commit', 'filename'], how='left')
MergeTreeEntries(log_df, hashes_df) ==
  LeftMerge([i \in 1..Len(log_df) |->
    LET l == log_df[i]
        hits == SelectSeq(hashes_df, LAMBDA r :
                  l.commit = r.commit /\ l.filename = r.filename)
    IN IF hits = <<>> THEN <<MergedRow(l, NaN)>>
       ELSE [j \in 1..Len(hits) |-> MergedRow(l, Some(hits[j].blob_hash))]])

SizedRow(l, cell) ==
  [index |-> 0, commit |-> l.commit, status |-> l.status, filename |-> l.filename,
   old_filename |-> l.old_filename, blob_hash |-> l.blob_hash, size_bytes |-> cell]

\* final_df = pd.merge(merged_df, blob_sizes_df[['blob_hash', 'size_bytes']],
\*                     on='blob_hash', how='left'); null keys match null keys.
MergeSizes(merged_df, sizes_df) ==
  LeftMerge([i \in 1..Len(merged_df) |->
    LET l == merged_df[i]
        hits == SelectSeq(sizes_df, LAMBDA r : l.blob_hash = r.blob_hash)
    IN IF hits = <<>> THEN <<SizedRow(l, NaN)>>
       ELSE [j \in 1..Len(hits) |-> SizedRow(l, hits[j].size_bytes)]])

ScannedRow(l, eid_occ, unique_occ, found_ids) ==
  [index |-> 0, commit |-> l.commit, status |-> l.status, filename |-> l.filename,
   old_filename |-> l.old_filename, blob_hash |-> l.blob_hash,
   size_bytes |-> l.size_bytes, eid_occ |-> eid_occ, unique_occ |-> unique_occ,
   found_ids |-> found_ids]

\* final_df = pd.merge(final_df, glob_hash_hits, on='blob_hash', how='left')
MergeScanResults(df, hits_df) ==
  LeftMerge([i \in 1..Len(df) |->
    LET l == df[i]
        hits == SelectSeq(hits_df, LAMBDA r : l.blob_hash = Some(r.blob_hash))
    IN IF hits = <<>> THEN <<ScannedRow(l, NaN, NaN, NaN)>>
       ELSE [j \in 1..Len(hits) |->
               ScannedRow(l, hits[j].eid_occ, Some(hits[j].unique_occ),
                          Some(hits[j].found_ids))]])

(* --------------------------- the blob scan ---------------------------- *)
MostCommonN == 5

\* collections.Counter(ids), as the sequence of its items in insertion order.
Counter(ids) ==
  LET keys == Unique(ids)
  IN [i \in 1..Len(keys) |->
        [eid |-> keys[i],
         count |-> Cardinality({k \in 1..Len(ids) : ids[k] = keys[i]})]]

\* sorted(items, key=count, reverse=True): stable, equal counts keep their order.
RECURSIVE SortByCountDesc(_)
SortByCountDesc(items) ==
  IF items = <<>> THEN <<>>
  ELSE LET sorted == SortByCountDesc(SubSeq(items, 1, Len(items) - 1))
           last   == items[Len(items)]
           before == SelectSeq(sorted, LAMBDA x : x.count >= last.count)
           after  == SelectSeq(sorted, LAMBDA x : x.count < last.count)
       IN before \o <<last>> \o after

\* c.most_common(5)
most_common(c) ==
  LET sorted == SortByCountDesc(c)
  IN SubSeq(sorted, 1, IF Len(sorted) < MostCommonN THEN Len(sorted) ELSE MostCommonN)

\* Mutant of update_dictionary: the else branch that adds a new key is missing.
update_dictionary_no_insert(ref_dic, new_dic) ==
  [i \in 1..Len(ref_dic) |->
     [ref_dic[i] EXCEPT !.count =
        @ + (IF \E j \in 1..Len(new_dic) : new_dic[j].eid = ref_dic[i].eid
             THEN (CHOOSE x \in Range(new_dic) : x.eid = ref_dic[i].eid).count
             ELSE 0)]]

\* update_dictionary(ref_dic, new_dic): sums the counts of shared keys.
RECURSIVE update_dictionary(_, _)
update_dictionary(ref_dic, new_dic) ==
  IF new_dic = <<>> THEN ref_dic
  ELSE LET item == Head(new_dic)
           merged ==
             IF \E i \in 1..Len(ref_dic) : ref_dic[i].eid = item.eid
             THEN [i \in 1..Len(ref_dic) |->
                     IF ref_dic[i].eid = item.eid
                     THEN [ref_dic[i] EXCEPT !.count = @ + item.count]
                     ELSE ref_dic[i]]
             ELSE Append(ref_dic, item)
       IN update_dictionary(merged, Tail(new_dic))

\* What `git show <blob>` followed by .decode("utf-8") can do.
ShowOutcomes == {"ok", "CalledProcessError", "UnicodeDecodeError"}

\* Mutant of ScanRow: eid_occ starts at 0 instead of NaN.
ScanRowZeroDefault(blob_hash, outcome) ==
  IF outcome = "ok"
  THEN LET ids == FindAll(BlobText(blob_hash))
       IN [blob_hash |-> blob_hash, eid_occ |-> Some(Len(ids)),
           unique_occ |-> Cardinality(Range(ids)),
           found_ids |-> IF Len(ids) # 0 THEN most_common(Counter(ids)) ELSE <<>>]
  ELSE [blob_hash |-> blob_hash, eid_occ |-> Some(0), unique_occ |-> 0,
        found_ids |-> <<>>]

\* One iteration of the loop of analyze_glob_hashes_for_pattern: the row appended.
ScanRow(blob_hash, outcome) ==
  IF outcome = "ok"
  THEN LET ids == FindAll(BlobText(blob_hash))
       IN [blob_hash |-> blob_hash, eid_occ |-> Some(Len(ids)),
           unique_occ |-> Cardinality(Range(ids)),
           found_ids |-> IF Len(ids) # 0 THEN most_common(Counter(ids)) ELSE <<>>]
  ELSE [blob_hash |-> blob_hash, eid_occ |-> NaN, unique_occ |-> 0,
        found_ids |-> <<>>]

\* ... and the dictionary of all found IDs after that iteration.
ScanDict(eid_dict, blob_hash, outcome) ==
  IF outcome = "ok" /\ Len(FindAll(BlobText(blob_hash))) # 0
  THEN update_dictionary(eid_dict, Counter(FindAll(BlobText(blob_hash))))
  ELSE eid_dict

\* Mutant of UniqueBlobs: the rows' hashes without .unique().
UniqueBlobsPerRow(df) == DropNa(Column(df, "blob_hash"))

\* unique_blobs = df["blob_hash"].dropna().unique()
UniqueBlobs(df) == Unique(DropNa(Column(df, "blob_hash")))

(* ------------------------- derived columns ---------------------------- *)
contextualise_git_status(status) ==
  CASE status = <<"A">> -> "added"
    [] status = <<"D">> -> "deleted"
    [] status = <<"M">> -> "modified"
    [] status = <<"T">> -> "type_change"
    [] status = <<"U">> -> "unmerged_conflict"
    [] status # <<>> /\ status[1] = "R" /\ Len(status) > 1 ->
         "renamed_similarity_" \o ToString(ToInt(Tail(status))) \o "%"
    [] status # <<>> /\ status[1] = "B" /\ Len(status) > 1 ->
         "broken_pairing_similarity_" \o ToString(ToInt(Tail(status))) \o "%"
    [] status # <<>> /\ status[1] = "C" /\ Len(status) > 1 ->
         "copied_similarity_" \o ToString(ToInt(Tail(status))) \o "%"
    [] OTHER -> "unknown"

\* analyse_file_names: filename_occ and size_MB (here in thousandths of a MB).
filename_occ(filename) == IF Search(filename) THEN 1 ELSE 0

size_MB(size_bytes) ==
  IF IsNull(size_bytes) THEN NaN
  ELSE LET MB == 1024 * 1024
       IN Some((size_bytes[1] \div MB) * 1000 + ((size_bytes[1] % MB) * 1000) \div MB)

\* pd.to_numeric(col, errors='coerce').fillna(0).astype(int)
FillNa0(cell) == IF IsNull(cell) THEN 0 ELSE cell[1]

\* Mutant of total_occ: the column as line 308 alone computes it,
\* final_df['eid_occ'] + final_df['filename_occ'], null where eid_occ is.
total_occ_sum(row) ==
  IF IsNull(row.eid_occ) THEN NaN ELSE Some(row.eid_occ[1] + filename_occ(row.filename))

\* Lines 316-319, which replace the column of line 308 in a table that has rows.
total_occ(row) == Some(FillNa0(row.eid_occ) + FillNa0(Some(filename_occ(row.filename))))

\* Lines 303-343 of audit_repository, row by row.
FormatRow(row) ==
  [index |-> row.index, commit |-> row.commit,
   status |-> contextualise_git_status(row.status),
   filename |-> row.filename, old_filename |-> row.old_filename,
   blob_hash |-> row.blob_hash, size_bytes |-> row.size_bytes,
   size_MB |-> size_MB(row.size_bytes),
   eid_occ |-> row.eid_occ, filename_occ |-> filename_occ(row.filename),
   total_occ |-> total_occ(row),
   unique_occ |-> row.unique_occ, found_ids |-> row.found_ids]

FormatTable(df) == [i \in 1..Len(df) |-> FormatRow(df[i])]

\* The place of a cell in a descending sort of non-negative numbers: nulls last.
SortKey(cell) == IF IsNull(cell) THEN -1 ELSE cell[1]

\* df.sort_values(by=<column>, ascending=False) with the default kind='quicksort',
\* keys being the cells of the column: the rows in non-increasing key order; the
\* order of equal keys is whatever the sort algorithm of the build leaves, so
\* every such order is an outcome.
SortOutcomes(df, keys) ==
  {[i \in 1..Len(df) |-> df[p[i]]] :
     p \in {q \in Permutations(1..Len(df)) :
              \A i \in 1..(Len(df) - 1) :
                 SortKey(keys[q[i]]) >= SortKey(keys[q[i + 1]])}}

\* DataFrame.to_csv(path, na_rep="nan"): a null cell prints as nan; a number of a
\* column that holds a null is a float and prints with a decimal point.
CsvNumber(cell, column) ==
  IF IsNull(cell) THEN "nan"
  ELSE IF \E i \in 1..Len(column) : IsNull(column[i])
       THEN ToString(cell[1]) \o ".0"
       ELSE ToString(cell[1])

to_csv(df) ==
  [i \in 1..Len(df) |->
     [commit |-> df[i].commit, status |-> df[i].status,
      filename |-> df[i].filename,
      blob_hash |-> IF IsNull(df[i].blob_hash) THEN "nan"
                    ELSE ToString(df[i].blob_hash[1]),
      size_bytes |-> CsvNumber(df[i].size_bytes, Column(df, "size_bytes")),
      eid_occ |-> CsvNumber(df[i].eid_occ, Column(df, "eid_occ")),
      filename_occ |-> df[i].filename_occ,
      total_occ |-> CsvNumber(df[i].total_occ, Column(df, "total_occ")),
      unique_occ |-> CsvNumber(df[i].unique_occ, Column(df, "unique_occ"))]]

(* ------------------------------ state --------------------------------- *)
VARIABLES
  pc,              \* the step audit_repository is at
  cwd,             \* os.getcwd(): "original" or "repo"
  faults,          \* external failures injected so far
  history,         \* the audited repository
  full_log_output, \* stdout of `git log`, split into lines
  full_log_df,     \* ChangeEvents
  blob_dig,        \* blob_dig.stdout: the object manifest, split into lines
  blob_sizes_df,   \* ObjectSizeRecords
  commits_todo,    \* what is left of `for commit in commits.unique()`
  ls_tree_cmd,     \* the local of get_blob_hashes_for_commits: null while unbound
  tree_failed,     \* commits whose `git ls-tree` raised CalledProcessError
  blob_hashes_df,  \* TreeEntries (all_blob_data)
  joined_df,       \* final_df before the scan (line 283), then before the sort (line 343)
  blobs_todo,      \* what is left of `for blob_hash in unique_blobs`
  shown,           \* every `git show` run so far: [blob_hash, outcome]
  rows,            \* rows of analyze_glob_hashes_for_pattern (glob_hash_hits)
  eid_dict,        \* eid_dict of analyze_glob_hashes_for_pattern
  content,         \* content of the last blob `git show` printed and decoded
  matches,         \* matches = re.findall(pattern, content)
  final_df,        \* final_df after the sort (line 344)
  written,         \* the files written so far, in order: [name, content]
  exc,             \* the exception that left audit_repository, "" if none
  reported         \* TRUE once the except clause printed its message

vars == <<pc, cwd, faults, history, full_log_output, full_log_df, blob_dig,
          blob_sizes_df, commits_todo, ls_tree_cmd, tree_failed, blob_hashes_df,
          joined_df, blobs_todo, shown, rows, eid_dict, content, matches,
          final_df, written, exc, reported>>

repoVars == <<history, full_log_output, full_log_df, blob_dig, blob_sizes_df>>

treeVars == <<commits_todo, ls_tree_cmd, tree_failed, blob_hashes_df>>

scanVars == <<joined_df, blobs_todo, shown, rows, eid_dict, content, matches>>

Init ==
  /\ pc = "clone"
  /\ cwd = "original"
  /\ faults = 0
  /\ history = <<>>
  /\ full_log_output = <<>>
  /\ full_log_df = <<>>
  /\ blob_dig = <<>>
  /\ blob_sizes_df = <<>>
  /\ commits_todo = <<>>
  /\ ls_tree_cmd = NaN
  /\ tree_failed = <<>>
  /\ blob_hashes_df = <<>>
  /\ joined_df = <<>>
  /\ blobs_todo = <<>>
  /\ shown = <<>>
  /\ rows = <<>>
  /\ eid_dict = <<>>
  /\ content = <<>>
  /\ matches = <<>>
  /\ final_df = <<>>
  /\ written = <<>>
  /\ exc = ""
  /\ reported = FALSE

(* ----------------- how a step of audit_repository ends ---------------- *)
CanFail == faults < MaxFaults

\* The step goes on to the next one.
Goto(next) ==
  /\ pc' = next
  /\ UNCHANGED <<cwd, exc, reported>>

\* `except subprocess.CalledProcessError` prints its message; `finally` restores
\* the working directory.
Caught ==
  /\ faults' = faults + 1
  /\ pc' = "done"
  /\ cwd' = "original"
  /\ reported' = TRUE
  /\ UNCHANGED exc

\* Mutant of Propagate: the exception leaves the function without `finally`.
PropagateNoFinally(e) ==
  /\ pc' = "done"
  /\ exc' = e
  /\ UNCHANGED <<cwd, reported>>

\* An exception the except clause does not name leaves the function through `finally`.
Propagate(e) ==
  /\ pc' = "done"
  /\ cwd' = "original"
  /\ exc' = e
  /\ UNCHANGED reported

\* `return` inside the try block, or its normal end.
Return ==
  /\ pc' = "done"
  /\ cwd' = "original"
  /\ UNCHANGED <<exc, reported>>

(* ------------------------------ steps ---------------------------------- *)
\* clone_or_update_repo(args.git_url, repo_path); os.chdir(repo_path)
CloneOrUpdate ==
  /\ pc = "clone"
  /\ \/ /\ pc' = "log"
        /\ cwd' = "repo"
        /\ UNCHANGED <<faults, exc, reported>>
     \/ /\ CanFail
        /\ Caught
  /\ UNCHANGED <<repoVars, treeVars, scanVars, final_df, written>>

\* full_log_output = get_full_log(); full_log_df = parse_full_log_to_dataframe(...)
GetFullLog ==
  /\ pc = "log"
  /\ \/ \E h \in Histories :
          /\ history' = h
          /\ full_log_output' = RenderLog(h, Len(h))
          /\ full_log_df' = parse_full_log_to_dataframe(full_log_output')
          /\ Goto("sizes")
          /\ UNCHANGED faults
     \/ /\ CanFail
        /\ Caught
        /\ UNCHANGED <<history, full_log_output, full_log_df>>
  /\ UNCHANGED <<blob_dig, blob_sizes_df, treeVars, scanVars, final_df, written>>

\* blob_dig = capture_git_files(); blob_pd = git_to_pandas(blob_dig.stdout, ...):
\* the commands run without check=True, a failure leaves an empty stdout.
CaptureGitFiles ==
  /\ pc = "sizes"
  /\ \/ /\ blob_dig' = CatFileOutput(history)
        /\ UNCHANGED faults
     \/ /\ CanFail
        /\ blob_dig' = <<>>
        /\ faults' = faults + 1
  /\ IF git_to_pandas_raises(blob_dig')
     THEN Propagate("ValueError") /\ UNCHANGED blob_sizes_df
     ELSE blob_sizes_df' = git_to_pandas(blob_dig') /\ Goto("check")
  /\ UNCHANGED <<history, full_log_output, full_log_df, treeVars, scanVars,
                 final_df, written>>

Placeholder ==
  [name |-> "placeholder", content |-> <<[note |-> "No commits or data to audit"]>>]

\* Mutant of IsEmptyHistory: the test only asks whether a table object exists.
IsEmptyHistoryNever(df) == FALSE

\* not isinstance(full_log_df, pd.DataFrame) or 'commit' not in
\* full_log_df.columns or full_log_df.empty: a table without rows has no columns.
IsEmptyHistory(df) == df = <<>>

\* `if ... full_log_df.empty:` writes the placeholder CSV and returns.
EmptyHistory ==
  /\ pc = "check"
  /\ IsEmptyHistory(full_log_df)
  /\ \/ /\ written' = Append(written, Placeholder)
        /\ Return
        /\ UNCHANGED faults
     \/ /\ CanFail
        /\ faults' = faults + 1
        /\ Propagate("OSError")
        /\ UNCHANGED written
  /\ UNCHANGED <<repoVars, treeVars, scanVars, final_df>>

\* Mutant of CommitsToList: the loop runs over `commits`, without .unique().
CommitsToListPerRow(commits) == commits

\* commits.unique(), the commits get_blob_hashes_for_commits lists the tree of.
CommitsToList(commits) == Unique(commits)

\* get_blob_hashes_for_commits(full_log_df['commit']) is entered.
StartTrees ==
  /\ pc = "check"
  /\ ~IsEmptyHistory(full_log_df)
  /\ commits_todo' = CommitsToList(Column(full_log_df, "commit"))
  /\ Goto("trees")
  /\ UNCHANGED <<faults, repoVars, ls_tree_cmd, tree_failed, blob_hashes_df,
                 scanVars, final_df, written>>

\* One iteration of `for commit in commits.unique()`.
LsTree ==
  /\ pc = "trees"
  /\ commits_todo # <<>>
  /\ LET commit == Head(commits_todo) IN
     \/ /\ ls_tree_cmd' = Some(commit)
        /\ blob_hashes_df' =
             blob_hashes_df \o TreeEntries(commit, LsTreeOutput(history, commit))
        /\ commits_todo' = Tail(commits_todo)
        /\ Goto("trees")
        /\ UNCHANGED <<faults, tree_failed>>
     \/ \* CalledProcessError; print(ls_tree_cmd.stderr) reads the result of an
        \* earlier iteration
        /\ CanFail
        /\ ~IsNull(ls_tree_cmd)
        /\ faults' = faults + 1
        /\ tree_failed' = Append(tree_failed, commit)
        /\ commits_todo' = Tail(commits_todo)
        /\ Goto("trees")
        /\ UNCHANGED <<ls_tree_cmd, blob_hashes_df>>
     \/ \* CalledProcessError before any assignment to ls_tree_cmd:
        \* print(ls_tree_cmd.stderr) raises UnboundLocalError
        /\ CanFail
        /\ IsNull(ls_tree_cmd)
        /\ faults' = faults + 1
        /\ tree_failed' = Append(tree_failed, commit)
        /\ Propagate("UnboundLocalError")
        /\ UNCHANGED <<commits_todo, ls_tree_cmd, blob_hashes_df>>
  /\ UNCHANGED <<repoVars, scanVars, final_df, written>>

\* Lines 282-283 and the entry of analyze_glob_hashes_for_pattern.  A DataFrame
\* built from an empty list has no columns: the merge on them raises KeyError.
MergeTables ==
  /\ pc = "trees"
  /\ commits_todo = <<>>
  /\ IF blob_hashes_df = <<>>
     THEN /\ Propagate("KeyError")
          /\ UNCHANGED <<joined_df, blobs_todo>>
     ELSE LET df == MergeSizes(MergeTreeEntries(full_log_df, blob_hashes_df),
                               blob_sizes_df)
          IN /\ joined_df' = df
             /\ blobs_todo' = UniqueBlobs(df)
             /\ Goto("scan")
  /\ UNCHANGED <<faults, repoVars, treeVars, shown, rows, eid_dict, content, matches,
                 final_df, written>>

\* One iteration of `for blob_hash in tqdm(unique_blobs)`.
ScanBlob ==
  /\ pc = "scan"
  /\ blobs_todo # <<>>
  /\ \E outcome \in ShowOutcomes :
       /\ outcome # "ok" => CanFail
       /\ faults' = IF outcome = "ok" THEN faults ELSE faults + 1
       /\ shown' = Append(shown, [blob_hash |-> Head(blobs_todo), outcome |-> outcome])
       /\ rows' = Append(rows, ScanRow(Head(blobs_todo), outcome))
       /\ eid_dict' = ScanDict(eid_dict, Head(blobs_todo), outcome)
       /\ content' = IF outcome = "ok" THEN BlobText(Head(blobs_todo)) ELSE content
       /\ matches' = IF outcome = "ok" THEN FindAll(content') ELSE matches
  /\ blobs_todo' = Tail(blobs_todo)
  /\ Goto("scan")
  /\ UNCHANGED <<repoVars, treeVars, joined_df, final_df, written>>

\* Lines 295-344: the join of the scan results, the derived columns, the sort.
FormatAndSort ==
  /\ pc = "scan"
  /\ blobs_todo = <<>>
  /\ IF rows = <<>>
     THEN /\ Propagate("KeyError")
          /\ UNCHANGED <<joined_df, final_df>>
     ELSE LET df == FormatTable(MergeScanResults(joined_df, rows))
          IN /\ joined_df' = df
             /\ final_df' \in SortOutcomes(df, Column(df, "total_occ"))
             /\ Goto("collaborators")
  /\ UNCHANGED <<faults, repoVars, treeVars, blobs_todo, shown, rows, eid_dict,
                 content, matches, written>>

\* build_collaborator_table: every failure inside is caught and printed; the
\* contributors CSV is written or it is not.
BuildCollaboratorTable ==
  /\ pc = "collaborators"
  /\ \/ /\ written' = Append(written, [name |-> "contributors", content |-> <<>>])
        /\ UNCHANGED faults
     \/ /\ CanFail
        /\ faults' = faults + 1
        /\ UNCHANGED written
  /\ Goto("forks")
  /\ UNCHANGED <<repoVars, treeVars, scanVars, final_df>>

\* fetch_forked_repos: requests.get is outside every try; a JSON decode error
\* returns without writing; open() or json.dump may raise.
FetchForkedRepos ==
  /\ pc = "forks"
  /\ \/ /\ written' = Append(written, [name |-> "forks", content |-> <<>>])
        /\ Goto("audit_csv")
        /\ UNCHANGED faults
     \/ /\ CanFail
        /\ faults' = faults + 1
        /\ Goto("audit_csv")
        /\ UNCHANGED written
     \/ /\ CanFail
        /\ faults' = faults + 1
        /\ \E e \in {"ConnectionError", "OSError"} : Propagate(e)
        /\ UNCHANGED written
  /\ UNCHANGED <<repoVars, treeVars, scanVars, final_df>>

\* final_df.to_csv(output_csv_path, na_rep="nan", index=False)
WriteAuditCsv ==
  /\ pc = "audit_csv"
  /\ \/ /\ written' = Append(written, [name |-> "audit", content |-> to_csv(final_df)])
        /\ Goto("eid_csv")
        /\ UNCHANGED faults
     \/ /\ CanFail
        /\ faults' = faults + 1
        /\ Propagate("OSError")
        /\ UNCHANGED written
  /\ UNCHANGED <<repoVars, treeVars, scanVars, final_df>>

\* total_eids_df.sort_values(by='count', ascending=False).to_csv(...)
WriteEidFrequency ==
  /\ pc = "eid_csv"
  /\ \/ /\ \E total_eids_df \in SortOutcomes(eid_dict, [i \in 1..Len(eid_dict) |-> Some(eid_dict[i].count)]) :
             written' = Append(written, [name |-> "eid_frequency",
                                         content |-> total_eids_df])
        /\ Return
        /\ UNCHANGED faults
     \/ /\ CanFail
        /\ faults' = faults + 1
        /\ Propagate("OSError")
        /\ UNCHANGED written
  /\ UNCHANGED <<repoVars, treeVars, scanVars, final_df>>

Next ==
  \/ CloneOrUpdate
  \/ GetFullLog
  \/ CaptureGitFiles
  \/ EmptyHistory
  \/ StartTrees
  \/ LsTree
  \/ MergeTables
  \/ ScanBlob
  \/ FormatAndSort
  \/ BuildCollaboratorTable
  \/ FetchForkedRepos
  \/ WriteAuditCsv
  \/ WriteEidFrequency

Spec == Init /\ [][Next]_vars

(* ============ the parsers and the pattern on arbitrary input =========== *)
\* Every variable the three specifications below leave at its initial value.
Untouched ==
  /\ cwd = "original"
  /\ faults = 0
  /\ history = <<>>
  /\ commits_todo = <<>>
  /\ ls_tree_cmd = NaN
  /\ tree_failed = <<>>
  /\ blob_hashes_df = <<>>
  /\ joined_df = <<>>
  /\ blobs_todo = <<>>
  /\ shown = <<>>
  /\ rows = <<>>
  /\ eid_dict = <<>>
  /\ final_df = <<>>
  /\ written = <<>>
  /\ reported = FALSE

(* ------------------ parse_full_log_to_dataframe alone ------------------ *)
\* The tab-separated fields of a changed-file line: status and path, or, for a
\* rename or a copy, status, old path and new path.
StatusLines ==
  {<< <<"A">>, FileNames[1] >>,
   << <<"M">>, FileNames[2] >>,
   << <<"D">>, FileNames[1] >>,
   << <<"R","1","0","0">>, FileNames[1], FileNames[2] >>,
   << <<"R","0","7","5">>, FileNames[2], FileNames[1] >>,
   << <<"C","1","0","0">>, FileNames[1], FileNames[2] >>,
   << <<"C","0","5","0">>, FileNames[2], FileNames[1] >>}

\* The lines `git log --all --name-status --pretty=format:COMMIT_START|...`
\* prints: commit headers, changed-file lines, blank lines.
LogLines ==
  {[kind |-> "COMMIT_START", commit |-> c, parts |-> <<>>] : c \in Range(CommitHashes)}
  \cup {[kind |-> "text", commit |-> 0, parts |-> p] : p \in StatusLines \cup {<<>>}}

\* A non-empty log starts with a commit header.
RawLogs ==
  UNION {{log \in [1..n -> LogLines] : log[1].kind = "COMMIT_START"} :
           n \in 1..MaxLogLines}

InitLog ==
  /\ pc = "parse_log"
  /\ full_log_output \in RawLogs
  /\ full_log_df = <<>>
  /\ blob_dig = <<>>
  /\ blob_sizes_df = <<>>
  /\ content = <<>>
  /\ matches = <<>>
  /\ exc = ""
  /\ Untouched

\* full_log_df = parse_full_log_to_dataframe(full_log_output)
ParseFullLog ==
  /\ pc = "parse_log"
  /\ full_log_df' = parse_full_log_to_dataframe(full_log_output)
  /\ pc' = "done"
  /\ UNCHANGED <<cwd, faults, history, full_log_output, blob_dig, blob_sizes_df,
                 treeVars, scanVars, final_df, written, exc, reported>>

NextLog == ParseFullLog

SpecLog == InitLog /\ [][NextLog]_vars

(* ------------------------ the ID pattern alone ------------------------- *)
\* Characters before a digit run: the letters of the SNP prefix, the dot, a
\* digit, and a character the pattern does not mention.
PrefixChars == {"r", "R", "s", "S", ".", "9", "_"}

RECURSIVE Prefixes(_)
Prefixes(n) ==
  IF n = 0 THEN {<<>>}
  ELSE Prefixes(n - 1)
       \cup {<<c>> \o p : c \in PrefixChars, p \in {q \in Prefixes(n - 1) : Len(q) = n - 1}}

\* What follows a digit run: nothing, a digit, another character.
Suffixes == {<<>>, <<"0">>, <<"_">>, <<".">>}

\* Digit runs around the limits of the ID range, and runs of 6 and 8 digits.
Cores ==
  {<<"1","2","3","4","5","6","7">>, <<"0","1","2","3","4","5","6">>,
   <<"1","2","3","4","5","6">>,     <<"1","0","0","0","0","0","0">>,
   <<"0","9","9","9","9","9","9">>, <<"6","5","0","0","0","0","0">>,
   <<"6","5","0","0","0","0","1">>, <<"6","4","9","9","9","9","9">>,
   <<"5","9","9","9","9","9","9">>, <<"7","0","0","0","0","0","0">>,
   <<"9","1","2","3","4","5","6","7">>}

Separators == {<<>>, <<",">>, <<".">>, <<"r","s">>, <<"_">>}

\* '3081375_20215_0_0.zip'
BulkFileName ==
  <<"3","0","8","1","3","7","5","_","2","0","2","1","5","_","0","_","0",
    ".","z","i","p">>

\* File contents and file names the pattern is applied to.
Texts ==
  {p \o c \o x : p \in Prefixes(MaxPrefix), c \in Cores, x \in Suffixes}
  \cup {c \o x \o d : c \in Cores, x \in Separators, d \in Cores}
  \cup {BulkFileName, <<>>}
  \cup Range(FileNames)

InitRegex ==
  /\ pc = "findall"
  /\ content \in Texts
  /\ matches = <<>>
  /\ full_log_output = <<>>
  /\ full_log_df = <<>>
  /\ blob_dig = <<>>
  /\ blob_sizes_df = <<>>
  /\ exc = ""
  /\ Untouched

\* matches = re.findall(pattern, content)
FindIds ==
  /\ pc = "findall"
  /\ matches' = FindAll(content)
  /\ pc' = "done"
  /\ UNCHANGED <<cwd, faults, repoVars, treeVars, joined_df, blobs_todo, shown,
                 rows, eid_dict, content, final_df, written, exc, reported>>

NextRegex == FindIds

SpecRegex == InitRegex /\ [][NextRegex]_vars

(* -------------------------- git_to_pandas alone ------------------------ *)
\* Lines of an object manifest: objects of every type, a blob without its
\* path, a blob line cut after the object name, a blob with a size that is not
\* a number, a `<name> missing` line, an empty line.
ManifestLines ==
  {<<"blob", 1, Decimal(BlobSize(1)), FileNames[1]>>,
   <<"blob", 2, Decimal(BlobSize(2)), FileNames[2]>>,
   <<"tree", 0, Decimal(0)>>,
   <<"commit", 0, Decimal(0)>>,
   <<"tag", 0, Decimal(0)>>,
   <<"blob", 1, Decimal(BlobSize(1))>>,
   <<"blob", 2>>,
   <<"blob", 1, <<"-">>, FileNames[1]>>,
   <<"deadbeef", "missing">>,
   <<>>}

Manifests == UNION {[1..n -> ManifestLines] : n \in 0..MaxManifestLines}

InitSizes ==
  /\ pc = "git_to_pandas"
  /\ blob_dig \in Manifests
  /\ blob_sizes_df = <<>>
  /\ full_log_output = <<>>
  /\ full_log_df = <<>>
  /\ content = <<>>
  /\ matches = <<>>
  /\ exc = ""
  /\ Untouched

\* blob_pd = git_to_pandas(blob_dig.stdout, [...]); blob_sizes_df = blob_pd.rename(...)
GitToPandas ==
  /\ pc = "git_to_pandas"
  /\ IF git_to_pandas_raises(blob_dig)
     THEN exc' = "ValueError" /\ UNCHANGED blob_sizes_df
     ELSE blob_sizes_df' = git_to_pandas(blob_dig) /\ UNCHANGED exc
  /\ pc' = "done"
  /\ UNCHANGED <<cwd, faults, history, full_log_output, full_log_df, blob_dig,
                 treeVars, scanVars, final_df, written, reported>>

NextSizes == GitToPandas

SpecSizes == InitSizes /\ [][NextSizes]_vars

(* ============================ properties =============================== *)
\* Helpers of the properties below.
\* The number of rows of df whose field f holds v.
CountIn(df, f, v) == Cardinality({i \in 1..Len(df) : df[i][f] = v})

RECURSIVE SumOver(_, _)
SumOver(S, f) ==
  IF S = {} THEN 0
  ELSE LET x == CHOOSE x \in S : TRUE IN f[x] + SumOver(S \ {x}, f)

\* The scan loop has run to its end.
ScanDone == joined_df # <<>> /\ pc # "scan"

\* The distinct non-null blob hashes of the joined table.
ReferencedBlobs == {b \in Blobs : \E i \in 1..Len(joined_df) : joined_df[i].blob_hash = Some(b)}

OkBlobs == {b \in Blobs : \E i \in 1..Len(shown) :
              shown[i].blob_hash = b /\ shown[i].outcome = "ok"}

Occurrences(b, eid) ==
  LET ids == FindAll(BlobText(b)) IN Cardinality({i \in 1..Len(ids) : ids[i] = eid})

\* C1: each distinct non-null blob_hash of the joined table is fetched and
\* scanned exactly once, however many rows reference it, and the result table
\* has exactly one row per distinct non-null blob_hash.
C1_ScannedOncePerBlob ==
  /\ \A b \in Blobs : CountIn(shown, "blob_hash", b) <= 1
  /\ ScanDone =>
       \A b \in Blobs :
         LET n == IF b \in ReferencedBlobs THEN 1 ELSE 0
         IN /\ CountIn(shown, "blob_hash", b) = n
            /\ CountIn(rows, "blob_hash", b) = n

C1_Witness ==
  /\ ScanDone
  /\ \E b \in Blobs :
       /\ CountIn(joined_df, "blob_hash", Some(b)) >= 2
       /\ CountIn(shown, "blob_hash", b) = 1
       /\ CountIn(rows, "blob_hash", b) = 1

\* C2: when the scan loop has finished, the counts of the global ID-frequency
\* table sum to the sum of eid_occ over the distinct scanned objects (an
\* unreadable object counting 0), and each ID's count is the number of its
\* occurrences in the distinct objects read, each object counted once.
C2_FrequencySum ==
  ScanDone =>
    /\ SumOver(1..Len(eid_dict), [i \in 1..Len(eid_dict) |-> eid_dict[i].count])
         = SumOver(ReferencedBlobs,
                   [b \in ReferencedBlobs |->
                      FillNa0((CHOOSE r \in Range(rows) : r.blob_hash = b).eid_occ)])
    /\ \A i \in 1..Len(eid_dict) :
         eid_dict[i].count = SumOver(OkBlobs, [b \in OkBlobs |-> Occurrences(b, eid_dict[i].eid)])
    /\ \A b \in OkBlobs : \A eid \in Range(FindAll(BlobText(b))) :
         \E i \in 1..Len(eid_dict) : eid_dict[i].eid = eid

C2_Witness ==
  /\ ScanDone
  /\ SumOver(1..Len(eid_dict), [i \in 1..Len(eid_dict) |-> eid_dict[i].count]) = 3
  /\ \E b \in OkBlobs :
       /\ CountIn(joined_df, "blob_hash", Some(b)) >= 2
       /\ Len(FindAll(BlobText(b))) = 3

\* C3: in every row of the final audit table total_occ is not null and equals
\* max(eid_occ, 0) + filename_occ, a null eid_occ counting 0 and filename_occ
\* being 0 or 1; total_occ is never negative.
C3_TotalOcc ==
  \A i \in 1..Len(final_df) :
    LET r == final_df[i]
        in_content == IF IsNull(r.eid_occ) THEN 0
                      ELSE IF r.eid_occ[1] > 0 THEN r.eid_occ[1] ELSE 0
    IN /\ r.filename_occ \in {0, 1}
       /\ ~IsNull(r.total_occ)
       /\ r.total_occ = Some(in_content + r.filename_occ)
       /\ SortKey(r.total_occ) >= 0

C3_Witness ==
  /\ \E i \in 1..Len(final_df) :
       IsNull(final_df[i].eid_occ) /\ final_df[i].total_occ = Some(1)
  /\ \E i \in 1..Len(final_df) :
       final_df[i].eid_occ = Some(3) /\ final_df[i].total_occ = Some(4)
  /\ \E i \in 1..Len(final_df) :
       final_df[i].eid_occ = Some(0) /\ final_df[i].total_occ = Some(0)

\* The number of changed-file lines of the log.
ChangedFileEntries == SumOver(1..Len(history), [c \in 1..Len(history) |-> Len(history[c])])

\* C4: the final audit table has exactly one row per ChangeEvent: the three left
\* joins neither drop a ChangeEvent nor give it two rows, so the row count is
\* the number of changed-file entries of the log.
C4_OneRowPerChangeEvent ==
  final_df # <<>> =>
    /\ Len(final_df) = Len(full_log_df)
    /\ Len(final_df) = ChangedFileEntries
    /\ \A k \in 1..Len(full_log_df) :
         /\ CountIn(final_df, "index", k - 1) = 1
         /\ \A i \in 1..Len(final_df) :
              final_df[i].index = k - 1 =>
                /\ final_df[i].commit = full_log_df[k].commit
                /\ final_df[i].filename = full_log_df[k].filename
                /\ final_df[i].status = contextualise_git_status(full_log_df[k].status)

C4_Witness ==
  /\ Len(final_df) = 3
  /\ Len(full_log_df) = 3
  /\ \E i, j \in 1..Len(final_df) :
       i # j /\ final_df[i].commit = final_df[j].commit
  /\ \E i \in 1..Len(final_df) : IsNull(final_df[i].blob_hash)
  /\ \E i \in 1..Len(final_df) : ~IsNull(final_df[i].size_bytes)

\* C5: a file deleted in commit C (status D, no entry for its path in C's tree)
\* has a row in the final table with status 'deleted', null blob_hash, null
\* size_bytes and size_MB, null eid_occ, unique_occ and found_ids, and
\* filename_occ computed from its path by the ID pattern.
C5_DeletedFileRow ==
  final_df # <<>> =>
    \A k \in 1..Len(full_log_df) :
      full_log_df[k].status = <<"D">> =>
        \E i \in 1..Len(final_df) :
          LET r == final_df[i] IN
          /\ r.index = k - 1
          /\ r.commit = full_log_df[k].commit
          /\ r.filename = full_log_df[k].filename
          /\ r.status = "deleted"
          /\ IsNull(r.blob_hash)
          /\ IsNull(r.size_bytes) /\ IsNull(r.size_MB)
          /\ IsNull(r.eid_occ) /\ IsNull(r.unique_occ) /\ IsNull(r.found_ids)
          /\ r.filename_occ = (IF Search(r.filename) THEN 1 ELSE 0)

C5_Witness ==
  /\ \E i \in 1..Len(final_df) :
       /\ final_df[i].status = "deleted"
       /\ IsNull(final_df[i].blob_hash)
       /\ final_df[i].filename_occ = 1
       /\ \E j \in 1..Len(blob_hashes_df) :
            blob_hashes_df[j].filename = final_df[i].filename

\* C6: when the parsed log holds no ChangeEvent and neither git nor the write
\* of the placeholder fails, the run writes one report of exactly one
\* placeholder row with a note field, lists no tree, joins and scans nothing,
\* writes no other file and raises no error.
C6_EmptyHistoryPlaceholder ==
  (pc = "done" /\ full_log_df = <<>> /\ ~reported /\ exc # "OSError") =>
    /\ exc = ""
    /\ Len(written) = 1
    /\ written[1].name = "placeholder"
    /\ Len(written[1].content) = 1
    /\ DOMAIN written[1].content[1] = {"note"}
    /\ IsNull(ls_tree_cmd) /\ tree_failed = <<>> /\ blob_hashes_df = <<>>
    /\ joined_df = <<>> /\ shown = <<>> /\ rows = <<>> /\ final_df = <<>>

C6_Witness ==
  /\ pc = "done"
  /\ full_log_df = <<>>
  /\ history = <<>>
  /\ exc = ""
  /\ written = <<Placeholder>>

\* The tree entries the listings of the commits that did not fail give.
ExpectedTreeEntries ==
  LET listed == SelectSeq(CommitsToList(Column(full_log_df, "commit")),
                          LAMBDA c : c \notin Range(tree_failed))
  IN Concat([i \in 1..Len(listed) |->
               TreeEntries(listed[i], LsTreeOutput(history, listed[i]))])

\* C7: when the tree listing of a commit fails (the first one processed
\* included), that commit contributes no tree entry, the entries of every other
\* commit are still collected and the run is not aborted.
C7_TreeFailureTolerated ==
  tree_failed # <<>> =>
    /\ exc \notin {"UnboundLocalError", "KeyError"}
    /\ (pc \notin {"check", "trees"} => blob_hashes_df = ExpectedTreeEntries)

C8_WitnessFetch ==
  /\ pc = "done" /\ exc = ""
  /\ \E i \in 1..Len(shown) :
       /\ shown[i].outcome = "CalledProcessError"
       /\ \E j \in 1..Len(shown) :
            j > i /\ shown[j].outcome = "ok" /\ rows[j].eid_occ = Some(3)
  /\ eid_dict # <<>>

\* C9: the final audit table is sorted by total_occ descending and the sort is
\* stable: rows of equal total_occ keep the order they had before the sort.
C9_SortedStable ==
  \A i, j \in 1..Len(final_df) :
    i < j =>
      /\ SortKey(final_df[i].total_occ) >= SortKey(final_df[j].total_occ)
      /\ final_df[i].total_occ = final_df[j].total_occ
           => final_df[i].index < final_df[j].index

\* The run failed: the except clause reported it or an exception left the function.
RunFailed == pc = "done" /\ (reported \/ exc # "")

\* C10: a run that fails at any step (the failure reported by the except clause
\* or by the exception that leaves the function) ends with none of its output
\* files written.
C10_NoPartialOutput ==
  RunFailed => written = <<>>

\* The changed-file lines of a log, in order.
StatusLinesOf(log) == SelectSeq(log, LAMBDA l : l.kind = "text" /\ l.parts # <<>>)

\* C11: for every changed-file line of the log the parser gives one ChangeEvent;
\* when the status is a rename or a copy (R<nn> or C<nn>) its path is the new
\* path and its old_path the old path; for every other status its path is the
\* single listed path and its old_path is empty.
C11_RenameCopyPaths ==
  pc = "done" =>
    LET ls == StatusLinesOf(full_log_output) IN
    /\ Len(full_log_df) = Len(ls)
    /\ \A i \in 1..Len(ls) :
         LET p == ls[i].parts
             r == full_log_df[i]
         IN /\ r.status = p[1]
            /\ IF p[1][1] \in {"R", "C"}
               THEN r.filename = p[3] /\ r.old_filename = p[2]
               ELSE r.filename = p[2] /\ r.old_filename = <<>>

\* A participant ID starts at t[i], in the words of the ID rule: 7 digits of
\* value 1000000..6500000, not after a digit, a dot or the letters r, s (in
\* either case), not before a digit.
IsIdAt(t, i) ==
  /\ i + 6 <= Len(t)
  /\ \A k \in i..(i + 6) : t[k] \in Digits
  /\ ToInt(SubSeq(t, i, i + 6)) \in 1000000..6500000
  /\ (i > 1 => t[i - 1] \notin Digits \cup {"."})
  /\ (i > 2 => ~(t[i - 2] \in {"r", "R"} /\ t[i - 1] \in {"s", "S"}))
  /\ (i + 7 <= Len(t) => t[i + 7] \notin Digits)

\* The IDs of t in text order.
IdsOf(t) ==
  LET starts == SelectSeq([i \in 1..Len(t) |-> i], LAMBDA i : IsIdAt(t, i))
  IN [k \in 1..Len(starts) |-> SubSeq(t, starts[k], starts[k] + 6)]

MatchOnceExamples ==
  {<<"1","2","3","4","5","6","7">>, BulkFileName, FileNames[1]}

NoMatchExamples ==
  {<<"0","1","2","3","4","5","6">>, <<"1","2","3","4","5","6">>,
   <<"9","1","2","3","4","5","6","7">>, <<"6","5","0","0","0","0","1">>,
   FileNames[2]}

\* C12: in every text the ID pattern matches a substring exactly when it is 7
\* digits of value 1000000..6500000, the character before it is neither a digit
\* nor '.', the two characters before it are not 'rs' in any letter case and
\* the character after it is not a digit; '1234567', '3081375_20215_0_0.zip'
\* and '3240971.tsv' match once, '0123456', '123456', '91234567', '6500001'
\* and 'rs1234567' do not match.
C12_PatternMatches ==
  pc = "done" =>
    /\ matches = IdsOf(content)
    /\ Search(content) <=> \E i \in 1..Len(content) : IsIdAt(content, i)
    /\ content \in MatchOnceExamples => Len(matches) = 1 /\ Search(content)
    /\ content \in NoMatchExamples => matches = <<>> /\ ~Search(content)

C12_Witness ==
  /\ pc = "done"
  /\ Len(content) = 15
  /\ matches = << <<"1","0","0","0","0","0","0">>, <<"6","5","0","0","0","0","0">> >>

\* A manifest line that describes a blob in full: type, name, numeric size, path.
WellFormedBlob(line) ==
  /\ Len(line) = 4
  /\ line[1] = "blob"
  /\ IsNumeric(line[3])

\* C13: git_to_pandas raises no exception on any manifest text and its size
\* index holds exactly one record per well-formed blob line, in order: lines of
\* type tree, commit and tag and malformed lines (missing fields, non-numeric
\* size, 'missing' object) are skipped.
C13_MalformedLinesSkipped ==
  pc = "done" =>
    LET good == SelectSeq(blob_dig, WellFormedBlob) IN
    /\ exc = ""
    /\ Len(blob_sizes_df) = Len(good)
    /\ \A i \in 1..Len(good) :
         blob_sizes_df[i] = [blob_hash |-> Some(good[i][2]),
                             size_bytes |-> Some(BlobSize(good[i][2]))]

\* C14: in a run that has findings the per-repository audit CSV is the last
\* output file written: once it is written, no other file is written after it
\* (the contributors CSV, the forks JSON and the ID-frequency CSV come before).
C14_AuditCsvLast ==
  \A w \in 1..Len(written) : written[w].name = "audit" => w = Len(written)

\* C15: when the call of audit_repository has ended, the working directory is
\* the one recorded at entry, on every exit path: the normal end, the return
\* after the placeholder, a caught git failure, an uncaught exception raised
\* after the change to the repository directory.
C15_WorkingDirectoryRestored ==
  pc = "done" => cwd = "original"

C15_Witness ==
  /\ pc = "done"
  /\ exc = "KeyError"
  /\ full_log_df # <<>>
  /\ cwd = "original"

====
